---- MODULE Spec2Model ----
(***************************************************************************)
(* Model of the plugin registration shim                                   *)
(*   libs/windows/media_kit_libs_windows_video/windows/                    *)
(*     media_kit_libs_windows_video_plugin_c_api.cpp                       *)
(*                                                                         *)
(*   void MediaKitLibsWindowsVideoPluginCApiRegisterWithRegistrar(         *)
(*       FlutterDesktopPluginRegistrarRef registrar) {                     *)
(*     MediaKit::GetInstance().FindPackages();                             *)
(*     std::cout << "package:media_kit_libs_windows_video registered."     *)
(*               << std::endl;                                             *)
(*   }                                                                     *)
(*                                                                         *)
(* A host thread is at one of the following places of the entry point:     *)
(*   "idle"      not inside the entry point                                *)
(*   "entered"   line 9,  called, nothing executed yet                     *)
(*   "got"       line 10, MediaKit::GetInstance() has returned             *)
(*   "finding"   line 10, inside FindPackages()                            *)
(*   "unwinding" line 10, FindPackages() has thrown, the stack unwinds     *)
(*   "found"     line 11, FindPackages() has returned                      *)
(*   "texted"    line 11, operator<<(cout, literal) has returned           *)
(*   "flushed"   line 12, operator<<(endl) has returned                    *)
(* MediaKit (media_kit.h) is not part of the source file: its two          *)
(* operations are modelled by what a call can do at the call site, return  *)
(* or throw.                                                               *)
(***************************************************************************)
EXTENDS Naturals, Sequences, FiniteSets

\* ------------------------------------------------------------------ bounds
NumThreads == 2
MaxCalls == 2

Threads == 1..NumThreads
\* the handles a host may pass as FlutterDesktopPluginRegistrarRef
Registrars == {"r1", "r2"}
\* what a registrar could have bound to it
Plugins == {"MediaKitLibsWindowsVideoPlugin"}
\* the exceptions FindPackages may throw
Errors == {"runtime_error", "bad_alloc"}

\* ------------------------------------------------------------ the literals
Text == "package:media_kit_libs_windows_video registered."
Endl == "\n"

VARIABLES
  pc,         \* [Threads -> place of the entry point]
  arg,        \* [Threads -> the registrar handle of the thread's call]
  registrar,  \* [Registrars -> SUBSET Plugins], the host's registrar tables
  instance,   \* the MediaKit singleton exists
  calls,      \* the FindPackages invocations, in order: the invoking threads
  find,       \* [Threads -> result of FindPackages in the thread's call]
  found,      \* [Threads -> number of FindPackages calls that returned]
  failures,   \* number of FindPackages calls that threw
  stdout,     \* the chunks inserted into std::cout, in order
  writers,    \* the thread that inserted each chunk of stdout
  started,    \* [Threads -> number of calls of the entry point made]
  outcome,    \* [Threads -> what the host got back from the last call]
  overlapped  \* some call was started while another was in progress

vars == <<pc, arg, registrar, instance, calls, find, found, failures,
          stdout, writers, started, outcome, overlapped>>

locator == <<instance, calls, find, found, failures>>

\* ----------------------------------------------------------------- helpers
RECURSIVE SumOver(_, _)
SumOver(f, S) ==
  IF S = {} THEN 0
  ELSE LET x == CHOOSE y \in S : TRUE IN f[x] + SumOver(f, S \ {x})

TotalStarted == SumOver(started, Threads)
TotalFound == SumOver(found, Threads)

\* number of positions of s holding x
Count(s, x) == Cardinality({i \in 1..Len(s) : s[i] = x})

\* chunks of stdout inserted by thread t, of one kind
ChunksBy(t, c) ==
  Cardinality({i \in 1..Len(stdout) : writers[i] = t /\ stdout[i] = c})

CallsBy(t) == Count(calls, t)

\* the complete lines of a chunk sequence: a line ends at each Endl
RECURSIVE LinesFrom(_, _, _)
LinesFrom(s, i, cur) ==
  IF i > Len(s) THEN <<>>
  ELSE IF s[i] = Endl THEN <<cur>> \o LinesFrom(s, i + 1, <<>>)
  ELSE LinesFrom(s, i + 1, Append(cur, s[i]))

Lines(s) == LinesFrom(s, 1, <<>>)

\* the chunks after the last Endl
RECURSIVE PartialFrom(_, _, _)
PartialFrom(s, i, cur) ==
  IF i > Len(s) THEN cur
  ELSE IF s[i] = Endl THEN PartialFrom(s, i + 1, <<>>)
  ELSE PartialFrom(s, i + 1, Append(cur, s[i]))

Partial(s) == PartialFrom(s, 1, <<>>)

IsPrefix(s, t) == Len(s) <= Len(t) /\ \A i \in 1..Len(s) : s[i] = t[i]

AllIdle == \A t \in Threads : pc[t] = "idle"

\* -------------------------------------------------------------------- Init
Init ==
  /\ pc = [t \in Threads |-> "idle"]
  /\ arg = [t \in Threads |-> "none"]
  /\ registrar = [r \in Registrars |-> {}]
  /\ instance = FALSE
  /\ calls = <<>>
  /\ find = [t \in Threads |-> "none"]
  /\ found = [t \in Threads |-> 0]
  /\ failures = 0
  /\ stdout = <<>>
  /\ writers = <<>>
  /\ started = [t \in Threads |-> 0]
  /\ outcome = [t \in Threads |-> "none"]
  /\ overlapped = FALSE

\* ----------------------------------------------------------------- actions
\* Register, binding a plugin object to the registrar as plugin entry points
\* usually do (registrar->AddPlugin)
RegisterBinds(t, r) ==
  /\ pc[t] = "idle"
  /\ TotalStarted < MaxCalls
  /\ pc' = [pc EXCEPT ![t] = "entered"]
  /\ arg' = [arg EXCEPT ![t] = r]
  /\ registrar' = [registrar EXCEPT ![r] = @ \cup Plugins]
  /\ started' = [started EXCEPT ![t] = @ + 1]
  /\ outcome' = [outcome EXCEPT ![t] = "none"]
  /\ find' = [find EXCEPT ![t] = "none"]
  /\ overlapped' = (overlapped \/ \E u \in Threads \ {t} : pc[u] # "idle")
  /\ UNCHANGED <<instance, calls, found, failures, stdout, writers>>

\* Register behind a once-only guard: a call after the first returns at once
RegisterOnce(t, r) ==
  /\ pc[t] = "idle"
  /\ TotalStarted < MaxCalls
  /\ pc' = [pc EXCEPT ![t] = IF instance THEN "idle" ELSE "entered"]
  /\ arg' = [arg EXCEPT ![t] = r]
  /\ started' = [started EXCEPT ![t] = @ + 1]
  /\ outcome' = [outcome EXCEPT ![t] = IF instance THEN "returned" ELSE "none"]
  /\ find' = [find EXCEPT ![t] = "none"]
  /\ overlapped' = (overlapped \/ \E u \in Threads \ {t} : pc[u] # "idle")
  /\ UNCHANGED <<registrar, instance, calls, found, failures, stdout, writers>>

\* line 9: the host calls the entry point with a registrar handle
Register(t, r) ==
  /\ pc[t] = "idle"
  /\ TotalStarted < MaxCalls
  /\ pc' = [pc EXCEPT ![t] = "entered"]
  /\ arg' = [arg EXCEPT ![t] = r]
  /\ started' = [started EXCEPT ![t] = @ + 1]
  /\ outcome' = [outcome EXCEPT ![t] = "none"]
  /\ find' = [find EXCEPT ![t] = "none"]
  /\ overlapped' = (overlapped \/ \E u \in Threads \ {t} : pc[u] # "idle")
  /\ UNCHANGED <<registrar, instance, calls, found, failures, stdout, writers>>

\* line 10: MediaKit::GetInstance()
GetInstance(t) ==
  /\ pc[t] = "entered"
  /\ pc' = [pc EXCEPT ![t] = "got"]
  /\ instance' = TRUE
  /\ UNCHANGED <<arg, registrar, calls, find, found, failures, stdout,
                 writers, started, outcome, overlapped>>

\* FindPackagesCall under a lock of the registration layer held during discovery
FindPackagesCallLocked(t) ==
  /\ pc[t] = "got"
  /\ \A u \in Threads \ {t} : pc[u] # "finding"
  /\ pc' = [pc EXCEPT ![t] = "finding"]
  /\ calls' = Append(calls, t)
  /\ UNCHANGED <<arg, registrar, instance, find, found, failures, stdout,
                 writers, started, outcome, overlapped>>

\* line 10: .FindPackages() is invoked on the instance
FindPackagesCall(t) ==
  /\ pc[t] = "got"
  /\ pc' = [pc EXCEPT ![t] = "finding"]
  /\ calls' = Append(calls, t)
  /\ UNCHANGED <<arg, registrar, instance, find, found, failures, stdout,
                 writers, started, outcome, overlapped>>

\* FindPackages returns normally
FindPackagesReturn(t) ==
  /\ pc[t] = "finding"
  /\ pc' = [pc EXCEPT ![t] = "found"]
  /\ find' = [find EXCEPT ![t] = "ok"]
  /\ found' = [found EXCEPT ![t] = @ + 1]
  /\ UNCHANGED <<arg, registrar, instance, calls, failures, stdout, writers,
                 started, outcome, overlapped>>

\* FindPackages throws e
FindPackagesRaise(t, e) ==
  /\ pc[t] = "finding"
  /\ pc' = [pc EXCEPT ![t] = "unwinding"]
  /\ find' = [find EXCEPT ![t] = e]
  /\ failures' = failures + 1
  /\ UNCHANGED <<arg, registrar, instance, calls, found, stdout, writers,
                 started, outcome, overlapped>>

\* Propagate with a catch-all that swallows the exception
PropagateSwallowed(t) ==
  /\ pc[t] = "unwinding"
  /\ pc' = [pc EXCEPT ![t] = "idle"]
  /\ outcome' = [outcome EXCEPT ![t] = "returned"]
  /\ UNCHANGED <<arg, registrar, instance, calls, find, found, failures,
                 stdout, writers, started, overlapped>>

\* Propagate with a handler that prints the confirmation and rethrows
PropagateLogged(t) ==
  /\ pc[t] = "unwinding"
  /\ pc' = [pc EXCEPT ![t] = "idle"]
  /\ outcome' = [outcome EXCEPT ![t] = find[t]]
  /\ stdout' = stdout \o <<Text, Endl>>
  /\ writers' = writers \o <<t, t>>
  /\ UNCHANGED <<arg, registrar, instance, calls, find, found, failures,
                 started, overlapped>>

\* lines 9-12: the body has no try block, the exception leaves the entry point
Propagate(t) ==
  /\ pc[t] = "unwinding"
  /\ pc' = [pc EXCEPT ![t] = "idle"]
  /\ outcome' = [outcome EXCEPT ![t] = find[t]]
  /\ UNCHANGED <<arg, registrar, instance, calls, find, found, failures,
                 stdout, writers, started, overlapped>>

\* WriteText with lines 10 and 11 exchanged: the literal is written before
\* FindPackages is invoked
WriteTextEarly(t) ==
  /\ pc[t] = "got"
  /\ pc' = [pc EXCEPT ![t] = "texted"]
  /\ stdout' = Append(stdout, Text)
  /\ writers' = Append(writers, t)
  /\ UNCHANGED <<arg, registrar, instance, calls, find, found, failures,
                 started, outcome, overlapped>>

\* line 11: std::cout << "package:media_kit_libs_windows_video registered."
WriteText(t) ==
  /\ pc[t] = "found"
  /\ pc' = [pc EXCEPT ![t] = "texted"]
  /\ stdout' = Append(stdout, Text)
  /\ writers' = Append(writers, t)
  /\ UNCHANGED <<arg, registrar, instance, calls, find, found, failures,
                 started, outcome, overlapped>>

\* WriteEndl without the std::endl
WriteEndlMissing(t) ==
  /\ pc[t] = "texted"
  /\ pc' = [pc EXCEPT ![t] = "flushed"]
  /\ UNCHANGED <<arg, registrar, instance, calls, find, found, failures,
                 stdout, writers, started, outcome, overlapped>>

\* line 11: << std::endl
WriteEndl(t) ==
  /\ pc[t] = "texted"
  /\ pc' = [pc EXCEPT ![t] = "flushed"]
  /\ stdout' = Append(stdout, Endl)
  /\ writers' = Append(writers, t)
  /\ UNCHANGED <<arg, registrar, instance, calls, find, found, failures,
                 started, outcome, overlapped>>

\* Return that raises although discovery returned
ReturnThrows(t) ==
  /\ pc[t] = "flushed"
  /\ pc' = [pc EXCEPT ![t] = "idle"]
  /\ outcome' = [outcome EXCEPT ![t] = "runtime_error"]
  /\ UNCHANGED <<arg, registrar, instance, calls, find, found, failures,
                 stdout, writers, started, overlapped>>

\* Return that first waits until a plugin is bound to the registrar
ReturnSuspended(t) ==
  /\ pc[t] = "flushed"
  /\ registrar[arg[t]] # {}
  /\ pc' = [pc EXCEPT ![t] = "idle"]
  /\ outcome' = [outcome EXCEPT ![t] = "returned"]
  /\ UNCHANGED <<arg, registrar, instance, calls, find, found, failures,
                 stdout, writers, started, overlapped>>

\* line 12: the closing brace, control is back in the host
Return(t) ==
  /\ pc[t] = "flushed"
  /\ pc' = [pc EXCEPT ![t] = "idle"]
  /\ outcome' = [outcome EXCEPT ![t] = "returned"]
  /\ UNCHANGED <<arg, registrar, instance, calls, find, found, failures,
                 stdout, writers, started, overlapped>>

Next ==
  \/ \E t \in Threads, r \in Registrars : Register(t, r)
  \/ \E t \in Threads : GetInstance(t)
  \/ \E t \in Threads : FindPackagesCall(t)
  \/ \E t \in Threads : FindPackagesReturn(t)
  \/ \E t \in Threads, e \in Errors : FindPackagesRaise(t, e)
  \/ \E t \in Threads : Propagate(t)
  \/ \E t \in Threads : WriteText(t)
  \/ \E t \in Threads : WriteEndl(t)
  \/ \E t \in Threads : Return(t)

Spec == Init /\ [][Next]_vars

\* The executions in which FindPackages always returns normally.
StepOk(t) ==
  \/ GetInstance(t)
  \/ FindPackagesCall(t)
  \/ FindPackagesReturn(t)
  \/ WriteText(t)
  \/ WriteEndl(t)
  \/ Return(t)

NextOk ==
  \/ \E t \in Threads, r \in Registrars : Register(t, r)
  \/ \E t \in Threads : GetInstance(t)
  \/ \E t \in Threads : FindPackagesCall(t)
  \/ \E t \in Threads : FindPackagesReturn(t)
  \/ \E t \in Threads : WriteText(t)
  \/ \E t \in Threads : WriteEndl(t)
  \/ \E t \in Threads : Return(t)

\* A call runs on a host thread that keeps running, and FindPackages is taken
\* to return: every call in progress takes its next step.
LiveSpec == Init /\ [][NextOk]_vars /\ \A t \in Threads : WF_vars(StepOk(t))

\* ------------------------------------------------------------------ claims
\* the output of k calls made one after the other: k lines, each the literal
Confirmations(k) == [i \in 1..k |-> <<Text>>]

\* C1: while exactly one call of the entry point has been made, FindPackages
\* has been invoked at most once and stdout holds a prefix of the one
\* confirmation line; once that call has returned, FindPackages has been
\* invoked exactly once and stdout holds exactly one line, the literal.
C1_OneCallOneDiscoveryOneLine ==
  TotalStarted = 1 =>
    /\ Len(calls) <= 1
    /\ IsPrefix(stdout, <<Text, Endl>>)
    /\ \A t \in Threads :
         outcome[t] = "returned" =>
           /\ Len(calls) = 1
           /\ Lines(stdout) = <<(<<Text>>)>>
           /\ Partial(stdout) = <<>>

C1_Witness ==
  /\ TotalStarted = 1
  /\ \E t \in Threads : pc[t] = "idle" /\ outcome[t] = "returned"

\* C2: a call in which FindPackages returned normally never raises: it is not
\* unwinding, the host never gets an exception from it, and when it is over
\* the host has got a plain return.
C2_NoRaiseWhenDiscoveryReturns ==
  \A t \in Threads :
    find[t] = "ok" =>
      /\ pc[t] # "unwinding"
      /\ outcome[t] \notin Errors
      /\ (pc[t] = "idle" => outcome[t] = "returned")

C2_Witness ==
  \E t \in Threads : find[t] = "ok" /\ pc[t] = "idle" /\ outcome[t] = "returned"

\* C3: no step changes a registrar; the handle of a call is set by the host's
\* call alone; a step that changes stdout appends one chunk and leaves the
\* package-locator alone, and a step that changes the package-locator leaves
\* stdout alone.
C3_OnlyDiscoveryAndOutput ==
  [][ /\ registrar' = registrar
      /\ \A t \in Threads : arg'[t] # arg[t] => pc[t] = "idle"
      /\ stdout' # stdout =>
           /\ locator' = locator
           /\ \E c \in {Text, Endl} : stdout' = Append(stdout, c)
      /\ locator' # locator => stdout' = stdout ]_vars

C3_Witness ==
  \E t \in Threads :
    /\ pc[t] = "idle"
    /\ outcome[t] = "returned"
    /\ arg[t] \in Registrars
    /\ \A r \in Registrars : registrar[r] = {}

\* C4: a thread has written no more literals than it has had FindPackages
\* return, and no more line ends than literals; it has invoked FindPackages
\* only with the singleton obtained; and until FindPackages of its call has
\* returned, nothing of that call is on stdout.
C4_LineOnlyAfterDiscovery ==
  \A t \in Threads :
    /\ ChunksBy(t, Text) <= found[t]
    /\ ChunksBy(t, Endl) <= ChunksBy(t, Text)
    /\ (CallsBy(t) > 0 => instance)
    /\ CallsBy(t) <= started[t]
    /\ pc[t] \in {"entered", "got", "finding", "unwinding"} =>
         /\ ChunksBy(t, Text) = found[t]
         /\ ChunksBy(t, Endl) = found[t]

C4_Witness ==
  \E t \in Threads :
    /\ pc[t] = "texted"
    /\ find[t] = "ok"
    /\ ChunksBy(t, Text) = found[t]

\* C5: a call whose FindPackages threw is unwinding or over, has invoked
\* FindPackages once (no retry), and hands the host the exception that
\* FindPackages threw.
C5_FailurePropagatesUnchanged ==
  \A t \in Threads :
    find[t] \in Errors =>
      /\ pc[t] \in {"unwinding", "idle"}
      /\ CallsBy(t) = started[t]
      /\ outcome[t] \in {"none", find[t]}
      /\ (pc[t] = "idle" => outcome[t] = find[t])

C5_Witness ==
  \E t \in Threads : find[t] \in Errors /\ pc[t] = "idle" /\ outcome[t] = find[t]

\* C6: with FindPackages returning, every call that is in progress leads to
\* the thread being back in the host with a plain return and with one literal
\* and one line end written for each of its calls.
C6_CallCompletes ==
  \A t \in Threads :
    (pc[t] # "idle") ~>
      /\ pc[t] = "idle"
      /\ outcome[t] = "returned"
      /\ ChunksBy(t, Text) = started[t]
      /\ ChunksBy(t, Endl) = started[t]

C6_Witness ==
  \E t \in Threads :
    /\ pc[t] = "idle"
    /\ outcome[t] = "returned"
    /\ started[t] >= 1
    /\ ChunksBy(t, Text) = started[t]
    /\ ChunksBy(t, Endl) = started[t]

\* C7: the literals on stdout are at most as many as the FindPackages calls
\* that returned normally, and a call whose FindPackages threw has put nothing
\* on stdout.
C7_LinesAtMostDiscoveries ==
  /\ Count(stdout, Text) <= TotalFound
  /\ \A t \in Threads :
       find[t] \in Errors =>
         /\ ChunksBy(t, Text) = found[t]
         /\ ChunksBy(t, Endl) = found[t]

C7_Witness ==
  /\ AllIdle
  /\ \E t \in Threads : outcome[t] \in Errors
  /\ TotalFound >= 1
  /\ Count(stdout, Text) = TotalFound

\* C8: when no call is in progress and FindPackages never threw, k calls have
\* caused k invocations of FindPackages, k literals and k line ends; if the
\* calls were made one after the other, stdout is k confirmation lines.
C8_NoOnceOnlyGuard ==
  (AllIdle /\ failures = 0) =>
    /\ Len(calls) = TotalStarted
    /\ Count(stdout, Text) = TotalStarted
    /\ Count(stdout, Endl) = TotalStarted
    /\ ~overlapped =>
         /\ Lines(stdout) = Confirmations(TotalStarted)
         /\ Partial(stdout) = <<>>

C8_Witness ==
  /\ AllIdle
  /\ failures = 0
  /\ ~overlapped
  /\ TotalStarted >= 2
  /\ Len(calls) = TotalStarted

\* C9: no step of a call waits for another thread: a thread that has the
\* instance can invoke FindPackages, a thread whose FindPackages returned can
\* write the literal, and a thread that wrote the literal can write the line
\* end, whatever the other threads are doing.
C9_NoMutualExclusion ==
  \A t \in Threads :
    /\ pc[t] = "got" => ENABLED FindPackagesCall(t)
    /\ pc[t] = "found" => ENABLED WriteText(t)
    /\ pc[t] = "texted" => ENABLED WriteEndl(t)

\* two threads inside FindPackages at the same time
C9_Witness ==
  \E t, u \in Threads : t # u /\ pc[t] = "finding" /\ pc[u] = "finding"

\* the literals of two overlapping calls in the order of the invocations of
\* FindPackages, and in the opposite order
C9_SameOrder ==
  \E t, u \in Threads :
    /\ t # u
    /\ calls = <<t, u>>
    /\ overlapped
    /\ Len(stdout) >= 2
    /\ \E i, j \in 1..Len(stdout) :
         /\ i < j
         /\ stdout[i] = Text /\ writers[i] = t
         /\ stdout[j] = Text /\ writers[j] = u

C9_OppositeOrder ==
  \E t, u \in Threads :
    /\ t # u
    /\ calls = <<t, u>>
    /\ overlapped
    /\ Len(stdout) >= 2
    /\ \E i, j \in 1..Len(stdout) :
         /\ i < j
         /\ stdout[i] = Text /\ writers[i] = u
         /\ stdout[j] = Text /\ writers[j] = t

TypeOK ==
  /\ pc \in [Threads -> {"idle", "entered", "got", "finding", "unwinding",
                         "found", "texted", "flushed"}]
  /\ arg \in [Threads -> Registrars \cup {"none"}]
  /\ registrar \in [Registrars -> SUBSET Plugins]
  /\ instance \in BOOLEAN
  /\ find \in [Threads -> {"none", "ok"} \cup Errors]
  /\ outcome \in [Threads -> {"none", "returned"} \cup Errors]
  /\ Len(stdout) = Len(writers)
  /\ \A i \in 1..Len(stdout) : stdout[i] \in {Text, Endl}
  /\ overlapped \in BOOLEAN
====
